---- MODULE Spec2Model ----
(***************************************************************************)
(* A model of config_builder.py of the sports poetry demo: the             *)
(* ConfigBuilder class (its document, its setters, validate, save, load)   *)
(* and compute_changes_from_default.                                       *)
(*                                                                         *)
(* Python values are modelled as follows.                                  *)
(*   - a str that the code takes apart (a sport name) is a record          *)
(*     [type |-> "str", val |-> <<c1, ..., cn>>] of its characters, which  *)
(*     are the code points U+0000 to U+00FF;                               *)
(*   - a list is a record [type |-> "list", val |-> <<x1, ..., xn>>];      *)
(*   - a str the code only compares and stores (a mode, a provider, a      *)
(*     model, a session id) is a record [type |-> "str", val |-> s] with s *)
(*     a TLA+ string, and None is the record [type |-> "NoneType"], so     *)
(*     that the str 'None' is not None; a key of a dict, a path and the    *)
(*     name of a method are TLA+ strings;                                  *)
(*   - a dict is a function from its keys to its values; where the code    *)
(*     walks the keys in order it is a record with the keys in sequence;   *)
(*   - the text of a JSON file is the JSON value it denotes;               *)
(*   - a raised exception is a record [type |-> class name, msg |-> the    *)
(*     pieces of the formatted message, in order].                         *)
(***************************************************************************)
EXTENDS Naturals, Sequences, FiniteSets, TLC

VARIABLES
    config,   \* self.config of the builder under study
    origin,   \* how that builder was made: "ConfigBuilder", "from_dict", "load"
              \* or "load_default"
    last,     \* the last call on it: operation, argument, document before, outcome
    files,    \* the file system: the content of every path that exists
    history,  \* the calls made so far, where a specification follows them
    heap      \* the llm mappings as objects, and who holds a reference to
              \* which, where a specification follows them

vars == <<config, origin, last, files, history, heap>>

---------------------------------------------------------------------------
(* Bounds of the model *)

\* how many entries beyond MAX_SPORTS an argument of with_sports may have
MaxExtra == 1

\* how many calls are made where the calls made are followed
MaxCalls == 4

---------------------------------------------------------------------------
(* Python built-ins the code uses *)

None == [type |-> "NoneType"]

Range(s) == {s[i] : i \in 1..Len(s)}

PyStr(chars) == [type |-> "str", val |-> chars]

PyList(items) == [type |-> "list", val |-> items]

PyInt(n) == [type |-> "int", val |-> n]

PyBool(b) == [type |-> "bool", val |-> b]

PyNone == None

\* a dict whose order of keys matters to the code: the keys in the order they
\* were put in, and the value of each
PyDict(keys, val) == [type |-> "dict", keys |-> keys, val |-> val]

\* the number a bool or an int is in a comparison: True is 1 and False is 0
py_number(v) == IF v.type = "bool" THEN (IF v.val THEN 1 ELSE 0) ELSE v.val

\* a == b of values that carry their type: a bool and an int are compared as
\* numbers, lists item by item, dicts key by key whatever the order of the
\* keys, and values of different types are not equal
RECURSIVE py_eq(_, _)
py_eq(a, b) ==
    IF a.type \in {"bool", "int"} /\ b.type \in {"bool", "int"}
    THEN py_number(a) = py_number(b)
    ELSE IF a.type # b.type
    THEN FALSE
    ELSE IF a.type = "list"
    THEN /\ Len(a.val) = Len(b.val)
         /\ \A i \in 1..Len(a.val) : py_eq(a.val[i], b.val[i])
    ELSE IF a.type = "dict"
    THEN /\ DOMAIN a.val = DOMAIN b.val
         /\ \A k \in DOMAIN a.val : py_eq(a.val[k], b.val[k])
    ELSE a = b

\* d.get(key) where the values carry their type
dict_get(d, key) == IF key \in DOMAIN d.val THEN d.val[key] ELSE PyNone

\* the characters str.strip() removes, those c with c.isspace(): U+0009 to
\* U+000D, U+001C to U+001F, U+0020, U+0085 and U+00A0
Whitespace ==
    {"\t", "\n", "", "\f", "\r", "", "", "", "", " ", "", " "}

\* the characters c.lower() changes, A to Z, U+00C0 to U+00D6 and U+00D8 to
\* U+00DE, and what it makes of each
UpperLetters == <<"A","B","C","D","E","F","G","H","I","J","K","L","M",
                  "N","O","P","Q","R","S","T","U","V","W","X","Y","Z",
                  "À","Á","Â","Ã","Ä","Å","Æ","Ç","È","É","Ê","Ë","Ì","Í","Î",
                  "Ï","Ð","Ñ","Ò","Ó","Ô","Õ","Ö","Ø","Ù","Ú","Û","Ü","Ý","Þ">>

LowerLetters == <<"a","b","c","d","e","f","g","h","i","j","k","l","m",
                  "n","o","p","q","r","s","t","u","v","w","x","y","z",
                  "à","á","â","ã","ä","å","æ","ç","è","é","ê","ë","ì","í","î",
                  "ï","ð","ñ","ò","ó","ô","õ","ö","ø","ù","ú","û","ü","ý","þ">>

lower_char(c) ==
    IF \E i \in 1..Len(UpperLetters) : UpperLetters[i] = c
    THEN LowerLetters[CHOOSE i \in 1..Len(UpperLetters) : UpperLetters[i] = c]
    ELSE c

\* str.lower()
str_lower(s) == [i \in 1..Len(s) |-> lower_char(s[i])]

RECURSIVE str_lstrip(_)
str_lstrip(s) ==
    IF s = <<>> THEN s
    ELSE IF Head(s) \in Whitespace THEN str_lstrip(Tail(s)) ELSE s

RECURSIVE str_rstrip(_)
str_rstrip(s) ==
    IF s = <<>> THEN s
    ELSE IF s[Len(s)] \in Whitespace THEN str_rstrip(SubSeq(s, 1, Len(s) - 1)) ELSE s

\* str.strip()
str_strip(s) == str_rstrip(str_lstrip(s))

DecimalDigits == <<"0","1","2","3","4","5","6","7","8","9">>

\* the decimal text an f-string gives a non-negative int
RECURSIVE format_int(_)
format_int(n) ==
    IF n < 10 THEN DecimalDigits[n + 1]
    ELSE format_int(n \div 10) \o DecimalDigits[(n % 10) + 1]

\* d[k] = v on a dict
DictSet(d, k, v) == [x \in DOMAIN d \cup {k} |-> IF x = k THEN v ELSE d[x]]

\* d.get(k)
DictGet(d, k) == IF k \in DOMAIN d THEN d[k] ELSE None

\* a variant that takes None for a value
Truthy_unless_empty(v) == v # PyStr("")

\* bool(v) of a str or None
Truthy(v) == v # None /\ v # PyStr("")

\* the text an f-string gives a str or None
format_value(v) == IF v = None THEN "None" ELSE v.val

\* sep.join(words): the text of the strs words with sep between them
RECURSIVE str_join(_, _)
str_join(sep, words) ==
    IF words = <<>> THEN ""
    ELSE IF Len(words) = 1 THEN words[1].val
    ELSE words[1].val \o sep \o str_join(sep, Tail(words))

---------------------------------------------------------------------------
(* Exceptions and call outcomes *)

NoError == [type |-> "NoError", msg |-> <<>>]

ConfigValidationError(msg) == [type |-> "ConfigValidationError", msg |-> msg]

AttributeError(msg) == [type |-> "AttributeError", msg |-> msg]

KeyError(msg) == [type |-> "KeyError", msg |-> msg]

FileNotFoundError(msg) == [type |-> "FileNotFoundError", msg |-> msg]

\* the outcome of a method: the document afterwards, what was raised, and
\* which object was returned ("self", "self.config", or None after a raise)
Returned(cfg) == [config |-> cfg, raised |-> NoError, ret |-> "self"]

ReturnedConfig(cfg) == [config |-> cfg, raised |-> NoError, ret |-> "self.config"]

Raised(cfg, exc) == [config |-> cfg, raised |-> exc, ret |-> None]

---------------------------------------------------------------------------
(* json.dump and json.load *)

(* The content of a file is the JSON value its text denotes:               *)
(*   [json |-> "null"], [json |-> "true"], [json |-> "false"],             *)
(*   [json |-> "string", text |-> s] for a str that is only compared,      *)
(*   [json |-> "string", chars |-> <<c1, ..., cn>>] for a sport name,      *)
(*   [json |-> "array", items |-> <<v1, ..., vn>>],                        *)
(*   [json |-> "object", members |-> the values by key].                   *)

JsonNull == [json |-> "null"]

JsonBool(b) == [json |-> IF b THEN "true" ELSE "false"]

JsonString(s) == [json |-> "string", text |-> s]

JsonChars(chars) == [json |-> "string", chars |-> chars]

JsonArray(items) == [json |-> "array", items |-> items]

JsonObject(members) == [json |-> "object", members |-> members]

\* a str or None
json_dump_str(value) == IF value = None THEN JsonNull ELSE JsonString(value.val)

\* the encoder picks the JSON form by the Python type of the value; a value
\* of the document has the type of its key: sports a list of str,
\* retry_enabled a bool, llm a dict of str or None, any other key a str or None
json_dump_value(key, value) ==
    CASE key = "sports" ->
            JsonArray([i \in 1..Len(value) |-> JsonChars(value[i].val)])
      [] key = "retry_enabled" -> JsonBool(value)
      [] key = "llm" ->
            JsonObject([field \in DOMAIN value |-> json_dump_str(value[field])])
      [] OTHER -> json_dump_str(value)

\* a variant that leaves out the keys whose value is None
json_dump_skips_null(doc) ==
    JsonObject([key \in {k \in DOMAIN doc : json_dump_value(k, doc[k]) # JsonNull} |->
                   json_dump_value(key, doc[key])])

\* json.dump(config, f, indent=2)
json_dump(doc) ==
    JsonObject([key \in DOMAIN doc |-> json_dump_value(key, doc[key])])

\* json.load(f)
RECURSIVE json_load(_)
json_load(value) ==
    CASE value.json = "null" -> None
      [] value.json = "true" -> TRUE
      [] value.json = "false" -> FALSE
      [] value.json = "string" ->
            IF "chars" \in DOMAIN value THEN PyStr(value.chars) ELSE PyStr(value.text)
      [] value.json = "array" ->
            [i \in 1..Len(value.items) |-> json_load(value.items[i])]
      [] value.json = "object" ->
            [key \in DOMAIN value.members |-> json_load(value.members[key])]

---------------------------------------------------------------------------
(* class ConfigBuilder *)

VALID_GENERATION_MODES == <<PyStr("template"), PyStr("llm")>>

VALID_LLM_PROVIDERS == <<PyStr("together"), PyStr("huggingface")>>

MIN_SPORTS == 3

MAX_SPORTS == 5

DEFAULT_LLM_CONFIG ==
    [provider |-> PyStr("together"),
     model |-> PyStr("meta-llama/Llama-3.3-70B-Instruct-Turbo-Free")]

\* ConfigBuilder(): the document of a fresh builder
NewConfig ==
    [sports |-> <<>>, retry_enabled |-> TRUE, generation_mode |-> PyStr("template")]

\* a variant that trims but does not lowercase
normalized_sports_no_lower(sports) ==
    [i \in 1..Len(sports.val) |-> PyStr(str_strip(sports.val[i].val))]

\* [sport.strip().lower() for sport in sports]
normalized_sports(sports) ==
    [i \in 1..Len(sports.val) |-> PyStr(str_lower(str_strip(sports.val[i].val)))]

\* len(sports) < self.MIN_SPORTS
too_few(sports) == Len(sports.val) < MIN_SPORTS

\* a variant with the upper limit off by one
too_many_off_by_one(sports) == Len(sports.val) > MAX_SPORTS + 1

\* len(sports) > self.MAX_SPORTS
too_many(sports) == Len(sports.val) > MAX_SPORTS

\* a variant that only compares neighbouring entries
has_duplicates_adjacent(normalized) ==
    \E i \in 1..Len(normalized) - 1 : normalized[i] = normalized[i + 1]

\* len(normalized_sports) != len(set(normalized_sports))
has_duplicates(normalized) == Len(normalized) # Cardinality(Range(normalized))

\* a variant that only looks at the first entry
has_empty_first_only(normalized) ==
    Len(normalized) > 0 /\ normalized[1].val = <<>>

\* any(not sport for sport in normalized_sports)
has_empty(normalized) == \E i \in 1..Len(normalized) : normalized[i].val = <<>>

with_sports(cfg, sports) ==
    IF sports.type # "list"
    THEN Raised(cfg, ConfigValidationError(<<"Sports must be a list">>))
    ELSE IF too_few(sports)
    THEN Raised(cfg, ConfigValidationError(
             <<"Must specify at least ", format_int(MIN_SPORTS),
               " sports (got ", format_int(Len(sports.val)), ")">>))
    ELSE IF too_many(sports)
    THEN Raised(cfg, ConfigValidationError(
             <<"Cannot specify more than ", format_int(MAX_SPORTS),
               " sports (got ", format_int(Len(sports.val)), ")">>))
    ELSE IF \E i \in 1..Len(sports.val) : sports.val[i].type # "str"
    THEN LET first == CHOOSE i \in 1..Len(sports.val) :
                          /\ sports.val[i].type # "str"
                          /\ \A j \in 1..(i - 1) : sports.val[j].type = "str"
         IN Raised(cfg, AttributeError(
                <<"'", sports.val[first].type,
                  "' object has no attribute 'strip'">>))
    ELSE LET normalized == normalized_sports(sports) IN
         IF has_duplicates(normalized)
         THEN Raised(cfg, ConfigValidationError(<<"Sports list contains duplicates">>))
         ELSE IF has_empty(normalized)
         THEN Raised(cfg, ConfigValidationError(<<"Sports list contains empty values">>))
         ELSE Returned(DictSet(cfg, "sports", normalized))

\* a variant that also puts the mode back to template
with_retry_resets_mode(cfg, enabled) ==
    Returned(DictSet(DictSet(cfg, "retry_enabled", enabled),
                     "generation_mode", PyStr("template")))

\* a variant that can switch retries off but not on again
with_retry_only_off(cfg, enabled) ==
    Returned(DictSet(cfg, "retry_enabled", cfg["retry_enabled"] /\ enabled))

with_retry(cfg, enabled) == Returned(DictSet(cfg, "retry_enabled", enabled))

\* a variant that sets the mode and never makes the llm block
with_generation_mode_no_block(cfg, mode) ==
    IF mode \notin Range(VALID_GENERATION_MODES)
    THEN Raised(cfg, ConfigValidationError(
             <<"Invalid generation mode: ", format_value(mode), ". ",
               "Must be one of: ", str_join(", ", VALID_GENERATION_MODES)>>))
    ELSE Returned(DictSet(cfg, "generation_mode", mode))

\* a variant that puts the default block back on every switch to llm
with_generation_mode_resets_llm(cfg, mode) ==
    IF mode \notin Range(VALID_GENERATION_MODES)
    THEN Raised(cfg, ConfigValidationError(
             <<"Invalid generation mode: ", format_value(mode), ". ",
               "Must be one of: ", str_join(", ", VALID_GENERATION_MODES)>>))
    ELSE LET set == DictSet(cfg, "generation_mode", mode) IN
         IF mode = PyStr("llm")
         THEN Returned(DictSet(set, "llm", DEFAULT_LLM_CONFIG))
         ELSE Returned(set)

with_generation_mode(cfg, mode) ==
    IF mode \notin Range(VALID_GENERATION_MODES)
    THEN Raised(cfg, ConfigValidationError(
             <<"Invalid generation mode: ", format_value(mode), ". ",
               "Must be one of: ", str_join(", ", VALID_GENERATION_MODES)>>))
    ELSE LET set == DictSet(cfg, "generation_mode", mode) IN
         IF mode = PyStr("llm") /\ "llm" \notin DOMAIN set
         THEN Returned(DictSet(set, "llm", DEFAULT_LLM_CONFIG))
         ELSE Returned(set)

\* if "llm" not in self.config: self.config["llm"] = self.DEFAULT_LLM_CONFIG.copy()
ensure_llm(cfg) ==
    IF "llm" \notin DOMAIN cfg THEN DictSet(cfg, "llm", DEFAULT_LLM_CONFIG) ELSE cfg

\* a variant that makes the llm block before it looks at the provider
with_llm_provider_block_first(cfg, provider) ==
    IF provider \notin Range(VALID_LLM_PROVIDERS)
    THEN Raised(ensure_llm(cfg), ConfigValidationError(
             <<"Invalid LLM provider: ", format_value(provider), ". ",
               "Must be one of: ", str_join(", ", VALID_LLM_PROVIDERS)>>))
    ELSE Returned(DictSet(DictSet(ensure_llm(cfg), "llm",
                                  DictSet(ensure_llm(cfg)["llm"], "provider", provider)),
                          "generation_mode", PyStr("llm")))

\* a variant that sets the provider and leaves the mode alone
with_llm_provider_keeps_mode(cfg, provider) ==
    IF provider \notin Range(VALID_LLM_PROVIDERS)
    THEN Raised(cfg, ConfigValidationError(
             <<"Invalid LLM provider: ", format_value(provider), ". ",
               "Must be one of: ", str_join(", ", VALID_LLM_PROVIDERS)>>))
    ELSE LET ensured == ensure_llm(cfg) IN
         Returned(DictSet(ensured, "llm", DictSet(ensured["llm"], "provider", provider)))

with_llm_provider(cfg, provider) ==
    IF provider \notin Range(VALID_LLM_PROVIDERS)
    THEN Raised(cfg, ConfigValidationError(
             <<"Invalid LLM provider: ", format_value(provider), ". ",
               "Must be one of: ", str_join(", ", VALID_LLM_PROVIDERS)>>))
    ELSE LET ensured == ensure_llm(cfg)
             set == DictSet(ensured, "llm",
                            DictSet(ensured["llm"], "provider", provider))
         IN  Returned(DictSet(set, "generation_mode", PyStr("llm")))

\* a variant that starts again from the default block
with_llm_model_from_defaults(cfg, model) ==
    Returned(DictSet(DictSet(cfg, "llm", DictSet(DEFAULT_LLM_CONFIG, "model", model)),
                     "generation_mode", PyStr("llm")))

\* a variant that puts the default block into an llm document that has none
validate_fills_defaults(cfg) ==
    IF "sports" \notin DOMAIN cfg
    THEN Raised(cfg, KeyError(<<"'sports'">>))
    ELSE IF cfg["sports"] = <<>>
    THEN Raised(cfg, ConfigValidationError(<<"Sports list is required">>))
    ELSE IF "generation_mode" \notin DOMAIN cfg
    THEN Raised(cfg, KeyError(<<"'generation_mode'">>))
    ELSE IF cfg["generation_mode"] = PyStr("llm")
    THEN LET filled == IF "llm" \notin DOMAIN cfg
                       THEN DictSet(cfg, "llm", DEFAULT_LLM_CONFIG) ELSE cfg
         IN  IF ~Truthy(DictGet(filled["llm"], "provider"))
             THEN Raised(filled, ConfigValidationError(
                      <<"LLM provider is required for LLM mode">>))
             ELSE IF ~Truthy(DictGet(filled["llm"], "model"))
             THEN Raised(filled, ConfigValidationError(
                      <<"LLM model is required for LLM mode">>))
             ELSE ReturnedConfig(filled)
    ELSE ReturnedConfig(cfg)

with_llm_model(cfg, model) ==
    LET ensured == ensure_llm(cfg)
        set == DictSet(ensured, "llm", DictSet(ensured["llm"], "model", model))
    IN  Returned(DictSet(set, "generation_mode", PyStr("llm")))

validate(cfg) ==
    IF "sports" \notin DOMAIN cfg
    THEN Raised(cfg, KeyError(<<"'sports'">>))
    ELSE IF cfg["sports"] = <<>>
    THEN Raised(cfg, ConfigValidationError(<<"Sports list is required">>))
    ELSE IF "generation_mode" \notin DOMAIN cfg
    THEN Raised(cfg, KeyError(<<"'generation_mode'">>))
    ELSE IF cfg["generation_mode"] = PyStr("llm")
    THEN IF "llm" \notin DOMAIN cfg
         THEN Raised(cfg, ConfigValidationError(
                  <<"LLM configuration required for LLM mode">>))
         ELSE IF ~Truthy(DictGet(cfg["llm"], "provider"))
         THEN Raised(cfg, ConfigValidationError(
                  <<"LLM provider is required for LLM mode">>))
         ELSE IF ~Truthy(DictGet(cfg["llm"], "model"))
         THEN Raised(cfg, ConfigValidationError(
                  <<"LLM model is required for LLM mode">>))
         ELSE ReturnedConfig(cfg)
    ELSE ReturnedConfig(cfg)

\* builder.build(): the class defines no build, so the attribute lookup raises
build(cfg) ==
    Raised(cfg, AttributeError(
               <<"'", "ConfigBuilder", "' object has no attribute 'build'">>))

\* a variant that writes the file before it validates
save_writes_first(cfg, fs, path) ==
    LET validated == validate(cfg) IN
    [config |-> cfg, raised |-> validated.raised,
     ret |-> IF validated.raised = NoError THEN path ELSE None,
     files |-> DictSet(fs, path, json_dump(cfg))]

\* save(path) on a builder holding cfg, with the files fs: the outcome and the
\* files afterwards
save(cfg, fs, path) ==
    LET validated == validate(cfg) IN
    IF validated.raised # NoError
    THEN [config |-> cfg, raised |-> validated.raised, ret |-> None, files |-> fs]
    ELSE [config |-> cfg, raised |-> NoError, ret |-> path,
          files |-> DictSet(fs, path, json_dump(validated.config))]

\* the keys the builder itself writes
SchemaKeys == {"sports", "retry_enabled", "generation_mode", "llm"}

\* a variant that keeps the keys of the schema only
from_dict_schema_keys(data) == [k \in DOMAIN data \cap SchemaKeys |-> data[k]]

\* builder.config = data.copy()
from_dict(data) == [k \in DOMAIN data |-> data[k]]

\* no builder is returned
NoBuilder == [k \in {} |-> None]

\* ConfigBuilder.load(path) with the files fs: the document of the new builder
load(fs, path) ==
    IF path \notin DOMAIN fs
    THEN [config |-> NoBuilder,
          raised |-> FileNotFoundError(
                         <<"[Errno 2] No such file or directory: '", path, "'">>),
          ret |-> None]
    ELSE [config |-> from_dict(json_load(fs[path])), raised |-> NoError,
          ret |-> "builder"]

\* a variant without the test that the path exists
load_default_unguarded(fs, path) == load(fs, path)

\* ConfigBuilder.load_default(path) with the files fs
load_default(fs, path) ==
    IF path \notin DOMAIN fs
    THEN [config |-> NoBuilder,
          raised |-> FileNotFoundError(
                         <<"Default config not found: ", path,
                           "\nRepository may be corrupted. This file must exist.">>),
          ret |-> None]
    ELSE load(fs, path)

---------------------------------------------------------------------------
(* compute_changes_from_default *)

\* the for loop from the i-th key of new_config on, with what was collected
\* before it
RECURSIVE changes_loop_known_keys(_, _, _, _, _)
changes_loop_known_keys(default_config, new_config, i, changed_fields, changes) ==
    IF i > Len(new_config.keys)
    THEN [changed_fields |-> changed_fields, changes |-> changes]
    ELSE LET key == new_config.keys[i]
             default_value == dict_get(default_config, key)
             new_value == new_config.val[key]
         IN  IF key \in DOMAIN default_config.val /\ ~py_eq(default_value, new_value)
             THEN changes_loop_known_keys(default_config, new_config, i + 1,
                      Append(changed_fields, key),
                      DictSet(changes, key,
                              [old |-> default_value, new |-> new_value]))
             ELSE changes_loop_known_keys(default_config, new_config, i + 1,
                      changed_fields, changes)

\* a variant that passes over the keys the default does not have
compute_changes_known_keys(default_config, new_config) ==
    changes_loop_known_keys(default_config, new_config, 1, <<>>,
                            [key \in {} |-> PyNone])

\* for key in new_config: ...
RECURSIVE changes_loop(_, _, _, _, _)
changes_loop(default_config, new_config, i, changed_fields, changes) ==
    IF i > Len(new_config.keys)
    THEN [changed_fields |-> changed_fields, changes |-> changes]
    ELSE LET key == new_config.keys[i]
             default_value == dict_get(default_config, key)
             new_value == new_config.val[key]
         IN  IF ~py_eq(default_value, new_value)
             THEN changes_loop(default_config, new_config, i + 1,
                      Append(changed_fields, key),
                      DictSet(changes, key,
                              [old |-> default_value, new |-> new_value]))
             ELSE changes_loop(default_config, new_config, i + 1,
                      changed_fields, changes)

\* a variant that also reports the keys only the default has, as removed
compute_changes_symmetric(default_config, new_config) ==
    LET forward == changes_loop(default_config, new_config, 1, <<>>,
                                [key \in {} |-> PyNone])
        removed == [keys |-> SelectSeq(default_config.keys,
                                       LAMBDA k : k \notin DOMAIN new_config.val),
                    val |-> [k \in DOMAIN default_config.val \ DOMAIN new_config.val |->
                                PyNone]]
    IN  changes_loop(default_config, removed, 1, forward.changed_fields,
                     forward.changes)

\* the pair (changed_fields, changes) the function returns
compute_changes_from_default(default_config, new_config) ==
    changes_loop(default_config, new_config, 1, <<>>, [key \in {} |-> PyNone])

---------------------------------------------------------------------------
(* The script template generator (skill_helpers.create_generator_script) *)

(* The script is the sequence of its statements.  A statement that calls a  *)
(* method of the builder is [method |-> its name, arg |-> the literal it is *)
(* given]; any other line of the script is [method |-> "", arg |-> its      *)
(* text].                                                                   *)

ScriptLine(text) == [method |-> "", arg |-> text]

ScriptCall(method, arg) == [method |-> method, arg |-> arg]

\* the statements every script begins with
ScriptHead(sports, timestamp) ==
    << ScriptLine("#!/usr/bin/env python3"),
       ScriptLine(<<"# Generated: ", timestamp>>),
       ScriptLine("from config_builder import ConfigBuilder"),
       ScriptCall("load_default", None),
       ScriptCall("with_sports", sports) >>

\* the LLM calls, with the provider and the model as literals
ScriptLlmCalls(provider, model) ==
    << ScriptCall("with_generation_mode", "llm"),
       ScriptCall("with_llm_provider", provider),
       ScriptCall("with_llm_model", model) >>

\* the call that switches retries off, when retry is false
ScriptRetryCalls(retry) ==
    IF retry THEN <<>> ELSE <<ScriptCall("with_retry", FALSE)>>

\* the statements every script ends with: a new timestamp, then the save
ScriptTail ==
    << ScriptLine("timestamp = datetime.now().strftime(...)"),
       ScriptCall("save", "output/{timestamp}/config.json") >>

\* a variant that writes the LLM calls whatever the mode
create_generator_script_always_llm(sports, mode, provider, model, retry, timestamp) ==
    ScriptHead(sports, timestamp) \o ScriptLlmCalls(provider, model)
        \o ScriptRetryCalls(retry) \o ScriptTail

create_generator_script(sports, mode, provider, model, retry, timestamp) ==
    ScriptHead(sports, timestamp)
        \o (IF mode = "llm" THEN ScriptLlmCalls(provider, model) ELSE <<>>)
        \o ScriptRetryCalls(retry) \o ScriptTail

---------------------------------------------------------------------------
(* The calls a client makes *)

\* no path exists
NoFiles == [path \in {} |-> None]

\* the builder has just been made and holds cfg: no method was called yet
NoCall(cfg) ==
    [op |-> "ConfigBuilder", arg |-> None, pre |-> cfg, raised |-> NoError,
     ret |-> "self"]

Call(op, arg, result) ==
    /\ config' = result.config
    /\ last' = [op |-> op, arg |-> arg, pre |-> config,
                raised |-> result.raised, ret |-> result.ret]
    /\ UNCHANGED <<origin, files>>

\* no object is followed
NoHeap == [obj |-> [a \in {} |-> None]]

\* a call whose place among the calls made is not followed
Unfollowed(call) == call /\ UNCHANGED <<history, heap>>

\* a call that is added to the calls made so far, with the document and the
\* files it found
Followed(call) ==
    /\ Len(history) < MaxCalls
    /\ call
    /\ history' = Append(history, [op |-> last'.op, arg |-> last'.arg,
                                    raised |-> last'.raised,
                                    pre |-> config, files |-> files])
    /\ UNCHANGED heap

WithSports(sports) == Call("with_sports", sports, with_sports(config, sports))

WithRetry(enabled) == Call("with_retry", enabled, with_retry(config, enabled))

WithGenerationMode(mode) ==
    Call("with_generation_mode", mode, with_generation_mode(config, mode))

WithLlmProvider(provider) ==
    Call("with_llm_provider", provider, with_llm_provider(config, provider))

WithLlmModel(model) == Call("with_llm_model", model, with_llm_model(config, model))

Validate == Call("validate", None, validate(config))

Build == Call("build", None, build(config))

Save(path) ==
    LET result == save(config, files, path) IN
    /\ config' = result.config
    /\ files' = result.files
    /\ last' = [op |-> "save", arg |-> path, pre |-> config,
                raised |-> result.raised, ret |-> result.ret]
    /\ UNCHANGED origin

\* a static method that makes a builder: when it returns, the builder it made
\* is the one under study; when it raises, nothing changes
Make(op, arg, result) ==
    /\ IF result.raised = NoError
       THEN config' = result.config /\ origin' = op
       ELSE UNCHANGED <<config, origin>>
    /\ last' = [op |-> op, arg |-> arg, pre |-> config,
                raised |-> result.raised, ret |-> result.ret]
    /\ UNCHANGED files

FromDict(data) ==
    Make("from_dict", data,
         [config |-> from_dict(data), raised |-> NoError, ret |-> "builder"])

Load(path) == Make("load", path, load(files, path))

LoadDefault(path) == Make("load_default", path, load_default(files, path))

\* the script generator: no builder takes part
CreateGeneratorScript(sports, mode, provider, model, retry, timestamp) ==
    /\ last' = [op |-> "create_generator_script",
                arg |-> [sports |-> sports, mode |-> mode, provider |-> provider,
                         model |-> model, retry |-> retry, timestamp |-> timestamp],
                pre |-> config, raised |-> NoError,
                ret |-> create_generator_script(sports, mode, provider, model,
                                                retry, timestamp)]
    /\ UNCHANGED <<config, origin, files>>

\* the module-level function: no builder takes part
ComputeChangesFromDefault(default_config, new_config) ==
    /\ last' = [op |-> "compute_changes_from_default",
                arg |-> [default_config |-> default_config,
                         new_config |-> new_config],
                pre |-> config, raised |-> NoError,
                ret |-> compute_changes_from_default(default_config, new_config)]
    /\ UNCHANGED <<config, origin, files>>

---------------------------------------------------------------------------
(* Objects and references *)

(* The llm mapping of a document is an object: documents whose "llm" keys   *)
(* hold the same object see each other's item assignments.  heap.obj gives  *)
(* the value of every object by its address.  A document held by reference *)
(* is [top |-> its keys other than "llm", llm |-> the address its "llm" key *)
(* holds, NoAddress without it].  Strings, booleans and the sports list are *)
(* held by value: no method assigns an item of a sports list (line 79       *)
(* binds the key to a new list).                                            *)

\* the address a document without the key "llm" holds: no object has it
NoAddress == "no object"

\* the address of the class attribute ConfigBuilder.DEFAULT_LLM_CONFIG
ClassDefault == "ConfigBuilder.DEFAULT_LLM_CONFIG"

Held(doc, addr) == [top |-> [k \in DOMAIN doc \ {"llm"} |-> doc[k]], llm |-> addr]

\* the document as whoever holds it reads it now
ValueOf(h, held) ==
    IF held.llm = NoAddress
    THEN held.top
    ELSE [k \in DOMAIN held.top \cup {"llm"} |->
            IF k = "llm" THEN h.obj[held.llm] ELSE held.top[k]]

\* the objects of h and one more, or one of them with a new value
Allocated(h, addr, value) ==
    [a \in DOMAIN h.obj \cup {addr} |-> IF a = addr THEN value ELSE h.obj[a]]

\* data.copy(): a new mapping with the keys of data, holding the same objects
dict_copy(held) == [top |-> held.top, llm |-> held.llm]

\* the objects the caller may have put under the key "llm" of the mapping
\* data: none without the key, else a mapping of the caller's own or, when
\* its items are those of the class default, the class attribute itself
LlmObjects(data) ==
    IF "llm" \notin DOMAIN data
    THEN {NoAddress}
    ELSE {"data['llm']"} \cup
         (IF data["llm"] = DEFAULT_LLM_CONFIG THEN {ClassDefault} ELSE {})

\* the objects when the caller has made the mapping data, with the object at
\* addr under its key "llm", and passed it to from_dict: the builder's
\* document is a copy of its top level and holds that very object (line 223)
HeapFromDict(data, addr) ==
    LET objs == [obj |-> [a \in {ClassDefault} |-> DEFAULT_LLM_CONFIG]]
    IN  [obj |-> IF addr \in {NoAddress, ClassDefault} THEN objs.obj
                 ELSE Allocated(objs, addr, data["llm"]),
         data |-> Held(data, addr),
         given |-> data,
         builder |-> dict_copy(Held(data, addr)).llm,
         second |-> <<>>,
         fresh |-> <<>>]

\* if "llm" not in self.config: self.config["llm"] =
\* self.DEFAULT_LLM_CONFIG.copy(): a new object with the items the class
\* default has now (lines 118, 143, 161)
EnsuredObject(h) ==
    IF h.builder # NoAddress
    THEN h
    ELSE [h EXCEPT !.builder = "self.config['llm']",
                   !.obj = Allocated(h, "self.config['llm']", h.obj[ClassDefault])]

\* self.config["llm"][key] = value: an item of the object the key "llm"
\* holds, whoever else holds that object (lines 145, 163)
ItemAssigned(h, key, value) ==
    [h EXCEPT !.obj = Allocated(h, h.builder, DictSet(h.obj[h.builder], key, value))]

\* what the call op(arg) on the builder does to the objects when it raised
\* or not: a call that raises does so before it touches any object
Written(h, op, arg, raised) ==
    IF raised # NoError
    THEN h
    ELSE IF op = "with_generation_mode"
    THEN IF arg = PyStr("llm") THEN EnsuredObject(h) ELSE h
    ELSE IF op = "with_llm_provider"
    THEN ItemAssigned(EnsuredObject(h), "provider", arg)
    ELSE IF op = "with_llm_model"
    THEN ItemAssigned(EnsuredObject(h), "model", arg)
    ELSE h

\* a call on the builder, with what it does to the objects
Aliased(call) ==
    /\ call
    /\ heap' = Written(heap, last'.op, last'.arg, last'.raised)
    /\ UNCHANGED history

\* the caller passes the same mapping to from_dict once more: a second builder
SecondFromDict ==
    /\ heap.second = <<>>
    /\ heap' = [heap EXCEPT !.second =
                    << [top |-> dict_copy(heap.data).top,
                        llm |-> dict_copy(heap.data).llm,
                        made |-> ValueOf(heap, heap.data)] >>]
    /\ UNCHANGED <<config, origin, last, files, history>>

\* ConfigBuilder().with_generation_mode("llm") on a later builder: the block
\* it gets is a copy of the class default as it is now (line 118)
LaterFresh ==
    /\ heap.fresh = <<>>
    /\ heap' = [heap EXCEPT
                    !.fresh = << Held(with_generation_mode(NewConfig, PyStr("llm")).config,
                                      "later.config['llm']") >>,
                    !.obj = Allocated(heap, "later.config['llm']",
                                      heap.obj[ClassDefault])]
    /\ UNCHANGED <<config, origin, last, files, history>>

---------------------------------------------------------------------------
(* with_sports on its own: every argument list over SportNames *)

\* raw sport names as a caller may type them: five that differ after trim and
\* lowercase, one that repeats another after trim and lowercase, and one of
\* whitespace only
SportNames ==
    { <<" ">>, <<"a">>, <<"A", " ">>, <<"b">>, <<"c">>, <<"d">>,
      <<"\t", "d", " ", "E">> }

MaxInputLen == MAX_SPORTS + MaxExtra

\* the list argument whose entries are the names f[1], ..., f[n]
SportsList(f, n) == PyList([i \in 1..n |-> PyStr(f[i])])

\* the documents the builder may hold when with_sports is called: a fresh
\* one, and one with an earlier sports list to be replaced
StoredSports == <<PyStr(<<"x">>), PyStr(<<"y">>), PyStr(<<"z">>)>>

PriorConfigs ==
    { NewConfig,
      [sports |-> StoredSports, retry_enabled |-> FALSE,
       generation_mode |-> PyStr("llm"), llm |-> DEFAULT_LLM_CONFIG] }

InitSports ==
    /\ config \in PriorConfigs
    /\ origin = "ConfigBuilder"
    /\ last = NoCall(config)
    /\ files = NoFiles
    /\ history = <<>>
    /\ heap = NoHeap

NextSports ==
    /\ last.op = "ConfigBuilder"
    /\ \E n \in 0..MaxInputLen :
          \E f \in [1..n -> SportNames] :
             Unfollowed(WithSports(SportsList(f, n)))

SpecSports == InitSports /\ [][NextSports]_vars

---------------------------------------------------------------------------
(* The life of one builder: made fresh or by from_dict, then any calls *)

Name(chars) == PyStr(chars)

\* arguments a caller passes to with_sports
SportsArgs ==
    { PyList(<<Name(<<"a">>), Name(<<"b">>), Name(<<"c">>)>>),
      PyList(<<Name(<<" ", "A">>), Name(<<"b", " ">>), Name(<<"C">>),
               Name(<<"d">>), Name(<<"e">>)>>),
      PyList(<<Name(<<"a">>), Name(<<"b">>)>>),
      PyList(<<Name(<<"a">>), Name(<<"b">>), Name(<<"c">>), Name(<<"d">>),
               Name(<<"e">>), Name(<<"f">>)>>),
      PyList(<<Name(<<"a">>), Name(<<"b">>), Name(<<"a">>)>>),
      PyList(<<Name(<<"\f", "É", "t", "é">>), Name(<<"é", "T", "É", " ">>),
               Name(<<"c">>)>>),
      PyList(<<Name(<<"a">>), Name(<<>>), Name(<<"c">>)>>),
      PyList(<<>>),
      PyList(<<Name(<<"a">>), PyInt(7), Name(<<"c">>)>>),
      PyList(<<PyInt(1), PyInt(2)>>),
      PyStr(<<"a", ",", "b", ",", "c">>) }

RetryArgs == {TRUE, FALSE}

ModeArgs == {PyStr("template"), PyStr("llm"), PyStr("invalid"), PyStr("")}

ProviderArgs == {PyStr("together"), PyStr("huggingface"), PyStr("openai")}

ModelArgs ==
    {DEFAULT_LLM_CONFIG["model"], PyStr("custom-model"), PyStr(""), PyStr("None"), None}

\* the values a loaded document may give each key
LoadedSports ==
    { <<>>,
      <<Name(<<"a">>)>>,
      StoredSports,
      <<Name(<<"A">>), Name(<<"a">>), Name(<<" ">>)>> }

LoadedModes == {PyStr("template"), PyStr("llm"), PyStr("hybrid")}

LoadedLlm ==
    { [k \in {} |-> None],
      DEFAULT_LLM_CONFIG,
      [provider |-> PyStr("huggingface")],
      [provider |-> None, model |-> PyStr("custom-model")],
      [provider |-> PyStr("together"), model |-> PyStr("")] }

DocKeys == {"sports", "retry_enabled", "generation_mode", "llm", "session_id"}

\* the mappings given to from_dict: any of the keys may be missing
LoadedDocs ==
    { [k \in keys |-> full[k]] :
        full \in [sports : LoadedSports, retry_enabled : {TRUE},
                  generation_mode : LoadedModes, llm : LoadedLlm,
                  session_id : {PyStr("test_session")}],
        keys \in {K \in SUBSET DocKeys : "retry_enabled" \in K} }

Init ==
    /\ \/ /\ config = NewConfig
          /\ origin = "ConfigBuilder"
          /\ last = NoCall(config)
       \/ \E data \in LoadedDocs :
             /\ config = from_dict(data)
             /\ origin = "from_dict"
             /\ last = [NoCall(config) EXCEPT !.op = "from_dict", !.arg = data,
                                              !.ret = "builder"]
    /\ files = NoFiles
    /\ history = <<>>
    /\ heap = NoHeap

Next ==
    \/ \E sports \in SportsArgs : Unfollowed(WithSports(sports))
    \/ \E enabled \in RetryArgs : Unfollowed(WithRetry(enabled))
    \/ \E mode \in ModeArgs : Unfollowed(WithGenerationMode(mode))
    \/ \E provider \in ProviderArgs : Unfollowed(WithLlmProvider(provider))
    \/ \E model \in ModelArgs : Unfollowed(WithLlmModel(model))
    \/ Unfollowed(Validate)
    \/ Unfollowed(Build)

Spec == Init /\ [][Next]_vars

---------------------------------------------------------------------------
(* The three LLM setters on a fresh builder, in any order *)

InitLlm ==
    /\ config = NewConfig
    /\ origin = "ConfigBuilder"
    /\ last = NoCall(config)
    /\ files = NoFiles
    /\ history = <<>>
    /\ heap = NoHeap

NextLlm ==
    \/ Followed(WithGenerationMode(PyStr("llm")))
    \/ \E provider \in Range(VALID_LLM_PROVIDERS) : Followed(WithLlmProvider(provider))
    \/ \E model \in ModelArgs : Followed(WithLlmModel(model))

SpecLlm == InitLlm /\ [][NextLlm]_vars

---------------------------------------------------------------------------
(* Builders and files: setters, validate, save, load, load_default *)

\* the template that ships with the repository, as JSON
DefaultFile ==
    [json |-> "object",
     members |->
        [sports |-> [json |-> "array",
                     items |-> <<[json |-> "string", chars |-> <<"x">>],
                                 [json |-> "string", chars |-> <<"y">>],
                                 [json |-> "string", chars |-> <<"z">>]>>],
         session_id |-> [json |-> "null"],
         retry_enabled |-> [json |-> "true"],
         generation_mode |-> [json |-> "string", text |-> "template"]]]

\* a file written by hand that breaks the rules of the setters, as JSON
HandWrittenFile ==
    [json |-> "object",
     members |->
        [sports |-> [json |-> "array",
                     items |-> <<[json |-> "string", chars |-> <<"a">>]>>],
         session_id |-> [json |-> "string", text |-> "loaded_session"],
         retry_enabled |-> [json |-> "false"],
         generation_mode |-> [json |-> "string", text |-> "llm"],
         llm |-> [json |-> "object",
                  members |-> [provider |-> [json |-> "string", text |-> "openai"]]]]]

\* a mapping that breaks the rules of the setters: one sport, a provider
\* outside the valid ones, no model, and a key outside the schema
HandWrittenDocument ==
    [sports |-> <<Name(<<"a">>)>>, session_id |-> PyStr("loaded_session"),
     retry_enabled |-> FALSE, generation_mode |-> PyStr("llm"),
     llm |-> [provider |-> PyStr("openai")]]

\* a complete llm document with a key outside the schema
SessionDocument ==
    [sports |-> StoredSports, session_id |-> PyStr("test_session"),
     retry_enabled |-> FALSE, generation_mode |-> PyStr("llm"),
     llm |-> [provider |-> PyStr("huggingface"), model |-> PyStr("custom-model")]]

\* the files that exist before the first call: config.json does not
InitialFiles ==
    [path \in {"config.default.json", "test_config.json"} |->
        IF path = "config.default.json" THEN DefaultFile ELSE HandWrittenFile]

SavePaths == {"config.json", "test_config.json"}

LoadPaths == {"config.json", "test_config.json"}

DefaultPaths == {"config.json", "config.default.json"}

InitFiles ==
    /\ config = NewConfig
    /\ origin = "ConfigBuilder"
    /\ last = NoCall(config)
    /\ files = InitialFiles
    /\ history = <<>>
    /\ heap = NoHeap

NextFiles ==
    \/ Followed(WithSports(PyList(<<Name(<<"a">>), Name(<<"b">>), Name(<<"c">>)>>)))
    \/ \E enabled \in RetryArgs : Followed(WithRetry(enabled))
    \/ Followed(WithGenerationMode(PyStr("llm")))
    \/ Followed(WithLlmProvider(PyStr("huggingface")))
    \/ Followed(Validate)
    \/ \E path \in SavePaths : Followed(Save(path))
    \/ \E data \in {HandWrittenDocument, SessionDocument} : Followed(FromDict(data))
    \/ \E path \in LoadPaths : Followed(Load(path))
    \/ \E path \in DefaultPaths : Followed(LoadDefault(path))

SpecFiles == InitFiles /\ [][NextFiles]_vars

---------------------------------------------------------------------------
(* compute_changes_from_default on its own: every pair of documents *)

DiffKeys == {"sports", "retry_enabled", "generation_mode", "session_id"}

\* the values a document may give each key; the function only compares them,
\* so each carries its type and a str is not spelled out in characters
DiffValues ==
    [sports |-> {PyList(<<PyStr("basketball"), PyStr("soccer"), PyStr("tennis")>>),
                 PyList(<<PyStr("hockey"), PyStr("swimming"), PyStr("volleyball")>>)},
     retry_enabled |-> {PyBool(TRUE), PyInt(1)},
     generation_mode |-> {PyStr("template"), PyStr("llm")},
     session_id |-> {PyStr("test"), PyNone}]

\* the orders in which the keys of K can have been put in
KeyOrders(K) ==
    {order \in [1..Cardinality(K) -> K] :
        \A i, j \in 1..Cardinality(K) : order[i] = order[j] => i = j}

\* the documents compared: any of the keys, in any order
DiffDocs ==
    UNION { UNION { {PyDict(order, val) : order \in KeyOrders(K)} :
                    val \in {v \in [K -> UNION {DiffValues[k] : k \in DiffKeys}] :
                                \A k \in K : v[k] \in DiffValues[k]} } :
            K \in SUBSET DiffKeys }

InitDiff ==
    /\ config = NewConfig
    /\ origin = "ConfigBuilder"
    /\ last = NoCall(config)
    /\ files = NoFiles
    /\ history = <<>>
    /\ heap = NoHeap

NextDiff ==
    /\ last.op = "ConfigBuilder"
    /\ \E default_config \in DiffDocs, new_config \in DiffDocs :
          Unfollowed(ComputeChangesFromDefault(default_config, new_config))

SpecDiff == InitDiff /\ [][NextDiff]_vars

---------------------------------------------------------------------------
(* The script generator on its own: every choice of parameters *)

ScriptSports ==
    { <<"basketball", "soccer", "tennis">>,
      <<"hockey", "swimming", "volleyball">>,
      <<"a", "b", "c", "d", "e">> }

ScriptModes == {"template", "llm"}

ScriptProviders == {"together", "huggingface"}

ScriptModels == {DEFAULT_LLM_CONFIG["model"].val, "custom-model", ""}

ScriptTimestamps == {"20251115_120000", "20251115_130000"}

InitScript ==
    /\ config = NewConfig
    /\ origin = "ConfigBuilder"
    /\ last = NoCall(config)
    /\ files = NoFiles
    /\ history = <<>>
    /\ heap = NoHeap

NextScript ==
    /\ last.op = "ConfigBuilder"
    /\ \E sports \in ScriptSports, mode \in ScriptModes,
          provider \in ScriptProviders, model \in ScriptModels,
          retry \in BOOLEAN, timestamp \in ScriptTimestamps :
          Unfollowed(CreateGeneratorScript(sports, mode, provider, model,
                                           retry, timestamp))

SpecScript == InitScript /\ [][NextScript]_vars

---------------------------------------------------------------------------
(* A mapping of the caller, the builders made from it and a later builder *)

\* the mappings the caller passes to from_dict
AliasDocs ==
    { [sports |-> StoredSports, retry_enabled |-> TRUE,
       generation_mode |-> PyStr("template")],
      [sports |-> StoredSports, retry_enabled |-> TRUE,
       generation_mode |-> PyStr("llm"), llm |-> DEFAULT_LLM_CONFIG],
      [sports |-> StoredSports, retry_enabled |-> TRUE,
       generation_mode |-> PyStr("llm"),
       llm |-> [provider |-> PyStr("huggingface"), model |-> PyStr("custom-model")]],
      [sports |-> <<>>, retry_enabled |-> TRUE,
       generation_mode |-> PyStr("template"), llm |-> DEFAULT_LLM_CONFIG] }

\* the arguments of the calls on the builder: a list with_sports stores and
\* one it refuses, and a model that is a str or None
AliasSports ==
    { PyList(<<Name(<<"a">>), Name(<<"b">>), Name(<<"c">>)>>),
      PyList(<<Name(<<"a">>), Name(<<"b">>)>>) }

AliasModels == {PyStr("custom-model"), None}

InitAlias ==
    \E data \in AliasDocs : \E addr \in LlmObjects(data) :
       /\ config = from_dict(data)
       /\ origin = "from_dict"
       /\ last = [NoCall(config) EXCEPT !.op = "from_dict", !.arg = data,
                                        !.ret = "builder"]
       /\ files = NoFiles
       /\ history = <<>>
       /\ heap = HeapFromDict(data, addr)

NextAlias ==
    \/ \E sports \in AliasSports : Aliased(WithSports(sports))
    \/ \E enabled \in RetryArgs : Aliased(WithRetry(enabled))
    \/ \E mode \in ModeArgs : Aliased(WithGenerationMode(mode))
    \/ \E provider \in ProviderArgs : Aliased(WithLlmProvider(provider))
    \/ \E model \in AliasModels : Aliased(WithLlmModel(model))
    \/ SecondFromDict
    \/ LaterFresh

SpecAlias == InitAlias /\ [][NextAlias]_vars

---------------------------------------------------------------------------
(* What the claims speak of *)

\* the positions of s that hold no whitespace
NonBlank(s) == {i \in 1..Len(s) : s[i] \notin Whitespace}

\* s without its leading and trailing whitespace
Trimmed(s) ==
    IF NonBlank(s) = {} THEN <<>>
    ELSE SubSeq(s, CHOOSE i \in NonBlank(s) : \A j \in NonBlank(s) : i <= j,
                   CHOOSE i \in NonBlank(s) : \A j \in NonBlank(s) : j <= i)

\* s with every upper-case letter replaced by its lower-case letter
Lowercased(s) == [i \in 1..Len(s) |-> lower_char(s[i])]

PairwiseDistinct(seq) ==
    \A i, j \in 1..Len(seq) : i # j => seq[i] # seq[j]

NoneEmpty(seq) == \A i \in 1..Len(seq) : seq[i] # <<>>

\* the last call was with_sports on a list of strings
SportsCall ==
    /\ last.op = "with_sports"
    /\ last.arg.type = "list"
    /\ \A i \in 1..Len(last.arg.val) : last.arg.val[i].type = "str"

ArgLen == Len(last.arg.val)

\* the trimmed, lowercased forms of the argument's entries, in input order
ArgForms == [i \in 1..ArgLen |-> Lowercased(Trimmed(last.arg.val[i].val))]

InRange == ArgLen >= 3 /\ ArgLen <= 5

DuplicatesError == ConfigValidationError(<<"Sports list contains duplicates">>)

EmptyValuesError == ConfigValidationError(<<"Sports list contains empty values">>)

\* the decimal text of a count below ten
CountText(n) == <<"0", "1", "2", "3", "4", "5", "6", "7", "8", "9">>[n + 1]

---------------------------------------------------------------------------
(* Claims on with_sports, checked under SpecSports *)

\* C1: for every list of 3 to 5 strings whose trimmed, lowercased forms are
\* pairwise distinct and non-empty, with_sports succeeds and the sports field
\* is exactly the list of those forms in input order, whatever was stored before.
C1_ValidSportsStored ==
    (SportsCall /\ InRange /\ PairwiseDistinct(ArgForms) /\ NoneEmpty(ArgForms))
    => /\ last.raised = NoError
       /\ config["sports"] = [i \in 1..ArgLen |-> PyStr(ArgForms[i])]

\* a list of five names, one of them in need of trimming and lowercasing,
\* has replaced an earlier sports list
C1_Witness ==
    /\ SportsCall /\ ArgLen = 5
    /\ last.raised = NoError
    /\ \E i \in 1..ArgLen : last.arg.val[i].val # ArgForms[i]
    /\ last.pre["sports"] # <<>>
    /\ config["sports"] # last.pre["sports"]

\* C2: for every list with fewer than 3 or more than 5 entries with_sports
\* raises ConfigValidationError and the message holds the number of entries
\* of the raw list and the violated limit, also when the list has duplicates
\* or empty entries.
C2_CountErrorNamesCount ==
    (SportsCall /\ ~InRange)
    => /\ last.raised.type = "ConfigValidationError"
       /\ CountText(ArgLen) \in Range(last.raised.msg)
       /\ (IF ArgLen < 3 THEN "3" ELSE "5") \in Range(last.raised.msg)
       /\ last.raised.msg[1] =
              (IF ArgLen < 3 THEN "Must specify at least "
                             ELSE "Cannot specify more than ")

\* a list of six entries with a duplicate and an empty entry is refused for
\* its count
C2_Witness ==
    /\ SportsCall /\ ArgLen = 6
    /\ ~PairwiseDistinct(ArgForms)
    /\ ~NoneEmpty(ArgForms)
    /\ last.raised.type = "ConfigValidationError"
    /\ "6" \in Range(last.raised.msg)

\* C3: every list of 3 to 5 strings in which two entries are equal after trim
\* and lowercase is refused with the 'contains duplicates' error.
C3_DuplicatesRefused ==
    (SportsCall /\ InRange /\ ~PairwiseDistinct(ArgForms))
    => last.raised = DuplicatesError

\* two entries that differ as typed but agree after trim and lowercase,
\* not next to each other, are refused as duplicates
C3_Witness ==
    /\ SportsCall /\ ArgLen = 3
    /\ last.arg.val[1] # last.arg.val[3]
    /\ ArgForms[1] = ArgForms[3]
    /\ ArgForms[1] # <<>>
    /\ ArgForms[1] # ArgForms[2]
    /\ last.raised = DuplicatesError

\* C4 as stated: every list of 3 to 5 strings with an entry that is empty
\* after trimming is refused with the 'contains empty values' error.
C4_EmptyAlwaysEmptyValuesError ==
    (SportsCall /\ InRange /\ ~NoneEmpty(ArgForms))
    => last.raised = EmptyValuesError

\* C4 as amended: every list of 3 to 5 strings with an entry that is empty
\* after trimming is refused with a ConfigValidationError: 'contains empty
\* values' when the trimmed, lowercased entries are pairwise distinct, and
\* 'contains duplicates' otherwise.
C4_EmptyRefused ==
    (SportsCall /\ InRange /\ ~NoneEmpty(ArgForms))
    => last.raised = (IF PairwiseDistinct(ArgForms) THEN EmptyValuesError
                                                    ELSE DuplicatesError)

\* a whitespace-only entry, not the first, among distinct names is refused
\* as an empty value
C4_Witness ==
    /\ SportsCall /\ InRange
    /\ \E i \in 2..ArgLen : last.arg.val[i].val # <<>> /\ ArgForms[i] = <<>>
    /\ PairwiseDistinct(ArgForms)
    /\ last.raised = EmptyValuesError

---------------------------------------------------------------------------
(* Claims on validate and the LLM setters, checked under Spec *)

ValidateCall == last.op = "validate"

Succeeded == last.raised = NoError

HasLlm(d) == "llm" \in DOMAIN d

LlmMode(d) == "generation_mode" \in DOMAIN d /\ d["generation_mode"] = PyStr("llm")

SportsEmpty(d) == "sports" \in DOMAIN d /\ d["sports"] = <<>>

\* a provider or model that is missing, None or the empty string
Falsy(block, k) == k \notin DOMAIN block \/ block[k] = None \/ block[k] = PyStr("")

\* what the four conditions of validate, taken in order, make of document d
ExpectedValidation(d) ==
    IF SportsEmpty(d)
    THEN ConfigValidationError(<<"Sports list is required">>)
    ELSE IF LlmMode(d) /\ ~HasLlm(d)
    THEN ConfigValidationError(<<"LLM configuration required for LLM mode">>)
    ELSE IF LlmMode(d) /\ Falsy(d["llm"], "provider")
    THEN ConfigValidationError(<<"LLM provider is required for LLM mode">>)
    ELSE IF LlmMode(d) /\ Falsy(d["llm"], "model")
    THEN ConfigValidationError(<<"LLM model is required for LLM mode">>)
    ELSE NoError

\* C5 as stated: validate raises ConfigValidationError exactly when the sports
\* list is empty, or the mode is llm and the llm block is absent, or its
\* provider is falsy, or its model is falsy, the first condition that holds
\* giving the message; in every other state it returns the document.
C5_ValidateRaisesExactly ==
    ValidateCall
    => /\ last.raised = ExpectedValidation(last.pre)
       /\ Succeeded => (last.ret = "self.config" /\ config = last.pre)

\* C5 on the documents that have a sports key and a generation_mode key:
\* there the four conditions, in order, decide the outcome of validate.
C5_OnDocumentsWithBothKeys ==
    (ValidateCall /\ {"sports", "generation_mode"} \subseteq DOMAIN last.pre)
    => /\ last.raised = ExpectedValidation(last.pre)
       /\ Succeeded => (last.ret = "self.config" /\ config = last.pre)

\* C6 as stated, for a builder made fresh and changed by setters only:
\* whenever validate succeeds, a document with an llm key has generation_mode
\* llm.
C6_LlmKeyImpliesLlmMode ==
    (origin = "ConfigBuilder" /\ ValidateCall /\ Succeeded /\ HasLlm(config))
    => config["generation_mode"] = PyStr("llm")

\* the trimmed, lowercased forms of a stored sports list
StoredForms(sports) ==
    [i \in 1..Len(sports) |-> Lowercased(Trimmed(sports[i].val))]

\* C7 as stated: whenever validate succeeds, the sports list has 3 to 5
\* entries, pairwise distinct and non-empty after trim and lowercase, also on
\* a builder made by from_dict.
C7_ValidatedSportsWellFormed ==
    (ValidateCall /\ Succeeded)
    => /\ Len(config["sports"]) >= 3
       /\ Len(config["sports"]) <= 5
       /\ PairwiseDistinct(StoredForms(config["sports"]))
       /\ NoneEmpty(StoredForms(config["sports"]))

\* the block the code adds when none exists
DefaultBlock ==
    [provider |-> PyStr("together"),
     model |-> PyStr("meta-llama/Llama-3.3-70B-Instruct-Turbo-Free")]

\* block `after` is block `before` with key k set to v and nothing else changed
OnlyKeySet(before, after, k, v) ==
    /\ DOMAIN after = DOMAIN before \cup {k}
    /\ after[k] = v
    /\ \A x \in DOMAIN before \ {k} : after[x] = before[x]

\* C8: with_generation_mode(m) raises ConfigValidationError if and only if m
\* is neither template nor llm; otherwise generation_mode becomes m, an
\* existing llm block is left as it was, and where no block existed the
\* default block is added when m is llm and none is added when m is template.
C8_GenerationModeSetter ==
    (last.op = "with_generation_mode")
    => IF last.arg \notin {PyStr("template"), PyStr("llm")}
       THEN last.raised.type = "ConfigValidationError"
       ELSE /\ Succeeded
            /\ config["generation_mode"] = last.arg
            /\ HasLlm(last.pre) => (HasLlm(config) /\ config["llm"] = last.pre["llm"])
            /\ ~HasLlm(last.pre)
                  => IF last.arg = PyStr("llm") THEN HasLlm(config) /\ config["llm"] = DefaultBlock
                                         ELSE ~HasLlm(config)

\* with_generation_mode("llm") is called again on a fresh builder whose
\* provider with_llm_provider had set to huggingface, and the provider stays
C8_Witness ==
    /\ origin = "ConfigBuilder"
    /\ last.op = "with_generation_mode" /\ last.arg = PyStr("llm") /\ Succeeded
    /\ LlmMode(last.pre) /\ HasLlm(last.pre)
    /\ last.pre["llm"]["provider"] = PyStr("huggingface")
    /\ config["llm"]["provider"] = PyStr("huggingface")

\* C9: with_llm_provider(p) raises ConfigValidationError if and only if p is
\* neither together nor huggingface; otherwise the document has an llm block
\* with provider p, which is the earlier block with only the provider set, or
\* the default block with provider p where none existed, and generation_mode
\* is llm whatever it was.
C9_LlmProviderSetter ==
    (last.op = "with_llm_provider")
    => IF last.arg \notin {PyStr("together"), PyStr("huggingface")}
       THEN last.raised.type = "ConfigValidationError"
       ELSE /\ Succeeded
            /\ HasLlm(config)
            /\ OnlyKeySet(IF HasLlm(last.pre) THEN last.pre["llm"] ELSE DefaultBlock,
                          config["llm"], "provider", last.arg)
            /\ config["generation_mode"] = PyStr("llm")

\* on a fresh builder back in template mode with a custom model, the provider
\* is set: the model stays and the mode is llm again
C9_Witness ==
    /\ origin = "ConfigBuilder"
    /\ last.op = "with_llm_provider" /\ last.arg = PyStr("huggingface") /\ Succeeded
    /\ last.pre["generation_mode"] = PyStr("template")
    /\ HasLlm(last.pre) /\ last.pre["llm"] = [provider |-> PyStr("together"), model |-> PyStr("custom-model")]
    /\ config["llm"] = [provider |-> PyStr("huggingface"), model |-> PyStr("custom-model")]
    /\ config["generation_mode"] = PyStr("llm")

\* C10: with_llm_model(m) raises nothing for any m; afterwards the document
\* has an llm block with model m, which is the earlier block with only the
\* model set, or the default block with model m where none existed, and
\* generation_mode is llm whatever it was.
C10_LlmModelSetter ==
    (last.op = "with_llm_model")
    => /\ Succeeded
       /\ HasLlm(config)
       /\ OnlyKeySet(IF HasLlm(last.pre) THEN last.pre["llm"] ELSE DefaultBlock,
                     config["llm"], "model", last.arg)
       /\ config["generation_mode"] = PyStr("llm")

\* on a fresh builder back in template mode with provider huggingface, the
\* model is set: the provider stays and the mode is llm again
C10_Witness ==
    /\ origin = "ConfigBuilder"
    /\ last.op = "with_llm_model" /\ last.arg = PyStr("custom-model") /\ Succeeded
    /\ last.pre["generation_mode"] = PyStr("template")
    /\ HasLlm(last.pre) /\ last.pre["llm"]["provider"] = PyStr("huggingface")
    /\ config["llm"] = [provider |-> PyStr("huggingface"), model |-> PyStr("custom-model")]
    /\ config["generation_mode"] = PyStr("llm")

---------------------------------------------------------------------------
(* C11 *)

CheckedSetters == {"with_sports", "with_generation_mode", "with_llm_provider"}

\* the last call was one of the three checking setters and it raised
FailedSetterCall == last.op \in CheckedSetters /\ last.raised # NoError

\* every call a client may make next has the same outcome on cfg1 as on cfg2
SameEffect(cfg1, cfg2) ==
    /\ \A sports \in SportsArgs : with_sports(cfg1, sports) = with_sports(cfg2, sports)
    /\ \A enabled \in RetryArgs : with_retry(cfg1, enabled) = with_retry(cfg2, enabled)
    /\ \A mode \in ModeArgs :
          with_generation_mode(cfg1, mode) = with_generation_mode(cfg2, mode)
    /\ \A provider \in ProviderArgs :
          with_llm_provider(cfg1, provider) = with_llm_provider(cfg2, provider)
    /\ \A model \in ModelArgs : with_llm_model(cfg1, model) = with_llm_model(cfg2, model)

\* C11: a call of with_sports, with_generation_mode or with_llm_provider that
\* raises leaves the document exactly as it was before the call, and every
\* call made next has the effect it has on a builder holding the document
\* from before the failed call.
C11_FailedSetterLeavesDocument ==
    FailedSetterCall => /\ config = last.pre
                        /\ SameEffect(config, last.pre)

\* a refused sports list after one was stored: the stored list is still there
C11_Witness ==
    /\ origin = "ConfigBuilder"
    /\ last.op = "with_sports"
    /\ last.raised.type = "ConfigValidationError"
    /\ "llm" \in DOMAIN config
    /\ config["sports"] = <<Name(<<"a">>), Name(<<"b">>), Name(<<"c">>)>>
    /\ config = last.pre

---------------------------------------------------------------------------
(* C17 *)

\* C17: validate() on a builder made by from_dict either returns the document
\* or raises ConfigValidationError, also when the document lacks the sports
\* or the generation_mode key.
C17_LoadedValidateReturnsOrRefuses ==
    (origin = "from_dict" /\ last.op = "validate")
        => last.raised.type \in {"NoError", "ConfigValidationError"}

---------------------------------------------------------------------------
(* C18 *)

\* the argument is a list and each of its entries is a str
ListOfStrings(sports) ==
    /\ sports.type = "list"
    /\ \A i \in 1..Len(sports.val) : sports.val[i].type = "str"

\* the arguments C18 speaks of: not a list at all, or a list of 3 to 5 entries
\* of which at least one is not a str
NotASequenceOfStrings(sports) ==
    \/ sports.type # "list"
    \/ /\ ~ListOfStrings(sports)
       /\ Len(sports.val) \in MIN_SPORTS..MAX_SPORTS

\* C18: with_sports raises ConfigValidationError whenever its argument is not
\* a list, and whenever it is a list of 3 to 5 entries with a non-string entry.
C18_NonStringsRefused ==
    (last.op = "with_sports" /\ NotASequenceOfStrings(last.arg))
        => last.raised.type = "ConfigValidationError"

---------------------------------------------------------------------------
(* C12 *)

LlmSetters == {"with_generation_mode", "with_llm_provider", "with_llm_model"}

\* at least one call was made and no method was called twice
EachAtMostOnce(calls) ==
    /\ calls # <<>>
    /\ \A i, j \in 1..Len(calls) : calls[i].op = calls[j].op => i = j

\* the argument method op was called with, or default when it was not called
ArgumentOr(calls, op, default) ==
    IF \E i \in 1..Len(calls) : calls[i].op = op
    THEN calls[CHOOSE i \in 1..Len(calls) : calls[i].op = op].arg
    ELSE default

\* C12: on a fresh builder, with_generation_mode('llm'), with_llm_provider(p)
\* and with_llm_model(m), any non-empty choice of them called once each in any
\* order, give the document of a fresh builder with generation_mode 'llm' and
\* an llm block of provider p ('together' when not called) and model m (the
\* default model when not called).
C12_LlmSettersInAnyOrder ==
    ( /\ origin = "ConfigBuilder"
      /\ EachAtMostOnce(history)
      /\ \A i \in 1..Len(history) :
            history[i].op \in LlmSetters /\ history[i].raised = NoError )
    => config =
         [sports |-> <<>>, retry_enabled |-> TRUE, generation_mode |-> PyStr("llm"),
          llm |-> [provider |-> ArgumentOr(history, "with_llm_provider", PyStr("together")),
                   model |-> ArgumentOr(history, "with_llm_model",
                                        DEFAULT_LLM_CONFIG["model"])]]

\* model first, provider second, mode last
C12_Witness ==
    /\ Len(history) = 3
    /\ EachAtMostOnce(history)
    /\ history[1].op = "with_llm_model" /\ history[1].arg = PyStr("custom-model")
    /\ history[2].op = "with_llm_provider" /\ history[2].arg = PyStr("huggingface")
    /\ history[3].op = "with_generation_mode"
    /\ config["llm"] = [provider |-> PyStr("huggingface"), model |-> PyStr("custom-model")]

---------------------------------------------------------------------------
(* C13 *)

\* the calls made so far that were calls of op
CallsOf(calls, op) == {i \in 1..Len(calls) : calls[i].op = op}

Latest(indices) == CHOOSE i \in indices : \A j \in indices : j <= i

\* the builder is the fresh one, a with_sports call on it succeeded, and no
\* LLM setter was called
TemplateCase ==
    /\ origin = "ConfigBuilder"
    /\ \E i \in CallsOf(history, "with_sports") : history[i].raised = NoError
    /\ \A i \in 1..Len(history) : history[i].op \notin LlmSetters

\* the document C13 expects: the sports of the latest successful with_sports
\* call, the value of the latest with_retry call (true when there was none),
\* generation_mode template and no other key
TemplateDocument ==
    LET stored == {i \in CallsOf(history, "with_sports") : history[i].raised = NoError}
        retries == CallsOf(history, "with_retry")
    IN  [sports |-> normalized_sports(history[Latest(stored)].arg),
         retry_enabled |-> IF retries = {} THEN TRUE
                           ELSE history[Latest(retries)].arg,
         generation_mode |-> PyStr("template")]

\* C13: on a fresh builder with a valid sports list, any with_retry calls and
\* no LLM setter call, validate() returns the document with those sports,
\* the retry value set last (true when none was set), generation_mode
\* 'template' and no llm key, and a save() writes exactly that document.
C13_TemplateDocumentValidatedAndSaved ==
    TemplateCase =>
        /\ validate(config) = ReturnedConfig(TemplateDocument)
        /\ last.op = "validate" => last.raised = NoError /\ config = TemplateDocument
        /\ last.op = "save" => /\ last.raised = NoError
                               /\ files[last.arg] = json_dump(TemplateDocument)
                               /\ json_load(files[last.arg]) = TemplateDocument

\* retries switched off, then the document saved to a new path
C13_Witness ==
    /\ TemplateCase
    /\ CallsOf(history, "with_retry") # {}
    /\ last.op = "save"
    /\ last.arg = "config.json"
    /\ ~config["retry_enabled"]
    /\ files["config.json"] = json_dump(config)

---------------------------------------------------------------------------
(* C14 *)

\* the last two calls were a save(path) that returned and then load(path)
SavedThenLoaded ==
    LET n == Len(history) IN
    /\ n >= 2
    /\ history[n - 1].op = "save"
    /\ history[n - 1].raised = NoError
    /\ history[n].op = "load"
    /\ history[n].arg = history[n - 1].arg

\* the document the builder held when save was called
DocumentBeforeSaving == history[Len(history) - 1].pre

\* C14: when save(path) succeeds (so validate() succeeded on the document)
\* and load(path) follows, load returns a builder on which validate()
\* succeeds and returns a document equal to the one before saving.
C14_SaveLoadRoundTrip ==
    SavedThenLoaded =>
        /\ last.raised = NoError
        /\ origin = "load"
        /\ validate(config) = ReturnedConfig(DocumentBeforeSaving)

\* the round trip of a document with an llm block and a null session_id
C14_Witness ==
    /\ SavedThenLoaded
    /\ "llm" \in DOMAIN config
    /\ "session_id" \in DOMAIN config
    /\ config["session_id"] = None
    /\ config = DocumentBeforeSaving

---------------------------------------------------------------------------
(* C15 *)

\* the last call was save: the call as the history has it
SaveCall == last.op = "save" /\ history # <<>>

TheCall == history[Len(history)]

\* C15: save(path) raises what validate() raises on the same document and
\* then leaves every file as it was, the one at path included (not created,
\* not changed); when validate() returns, save returns the path it was given
\* and the file at path holds the validated document, the other files being
\* left as they were.
C15_SaveValidatesFirst ==
    SaveCall =>
        LET validated == validate(TheCall.pre) IN
        IF validated.raised # NoError
        THEN /\ last.raised = validated.raised
             /\ files = TheCall.files
             /\ DOMAIN files = DOMAIN TheCall.files
        ELSE /\ last.raised = NoError
             /\ last.ret = last.arg
             /\ json_load(files[last.arg]) = validated.config
             /\ \A path \in DOMAIN TheCall.files \ {last.arg} :
                   path \in DOMAIN files /\ files[path] = TheCall.files[path]
             /\ DOMAIN files = DOMAIN TheCall.files \cup {last.arg}

\* a refused save to a path that does not exist, after a save that wrote
\* another path
C15_Witness ==
    /\ SaveCall
    /\ last.raised.type = "ConfigValidationError"
    /\ last.arg = "config.json"
    /\ "config.json" \notin DOMAIN files
    /\ files["test_config.json"] # HandWrittenFile

---------------------------------------------------------------------------
(* C16 *)

Setters ==
    {"with_sports", "with_retry", "with_generation_mode", "with_llm_provider",
     "with_llm_model"}

\* the builder under study was made from a mapping or a file
Loaded == origin \in {"from_dict", "load", "load_default"}

\* C16: from_dict(d) returns a builder whose document has the keys of d and
\* the values of d, whatever rules d breaks; load(path) of a file that exists
\* returns a builder whose document is the one the file holds; and on such a
\* builder a setter with a valid argument raises nothing, so a broken rule
\* is reported by validate() or save() only.
C16_LoadedAsGiven ==
    /\ last.op = "from_dict" =>
          /\ last.raised = NoError
          /\ DOMAIN config = DOMAIN last.arg
          /\ \A key \in DOMAIN last.arg : config[key] = last.arg[key]
    /\ (last.op = "load" /\ last.arg \in DOMAIN files) =>
          /\ last.raised = NoError
          /\ json_dump(config) = files[last.arg]
    /\ (Loaded /\ last.op \in Setters) => last.raised = NoError

\* the hand-written file loaded as it is: one sport, an unknown provider,
\* no model and a session_id
C16_Witness ==
    /\ last.op = "load"
    /\ last.arg = "test_config.json"
    /\ config = HandWrittenDocument
    /\ validate(config).raised # NoError

---------------------------------------------------------------------------
(* C19 *)

CorruptedNotice == "\nRepository may be corrupted. This file must exist."

\* C19: load_default(path) of a path that does not exist raises an error
\* that says the repository may be corrupted and differs from the error
\* load(path) raises for that path; of a path that exists it returns a
\* builder with the document load(path) returns.
C19_LoadDefault ==
    last.op = "load_default" =>
        IF last.arg \notin DOMAIN files
        THEN /\ last.raised # NoError
             /\ CorruptedNotice \in Range(last.raised.msg)
             /\ load(files, last.arg).raised # NoError
             /\ last.raised # load(files, last.arg).raised
             /\ config = last.pre
        ELSE /\ last.raised = NoError
             /\ load(files, last.arg).raised = NoError
             /\ config = load(files, last.arg).config

\* the default template is missing
C19_Witness ==
    /\ last.op = "load_default"
    /\ last.arg \notin DOMAIN files
    /\ last.raised.type = "FileNotFoundError"
    /\ last.raised.msg[1] = "Default config not found: "

---------------------------------------------------------------------------
(* C20 *)

DiffCall == last.op = "compute_changes_from_default"

\* the keys of cand on which cand and base differ, a key base lacks counting
\* as None in base
DifferingKeys(base, cand) ==
    {k \in DOMAIN cand.val : ~py_eq(dict_get(base, k), cand.val[k])}

\* C20: compute_changes_from_default(base, cand) returns ([], {}) when cand
\* equals base on every key of cand, and ([k], {k: {old: base[k], new:
\* cand[k]}}) when k is the one key of cand on which they differ.
C20_NoneOrOneChange ==
    DiffCall =>
        LET base == last.arg.default_config
            cand == last.arg.new_config
            differing == DifferingKeys(base, cand)
        IN  /\ differing = {} =>
                  /\ last.ret.changed_fields = <<>>
                  /\ DOMAIN last.ret.changes = {}
            /\ \A k \in differing :
                  differing = {k} =>
                      /\ last.ret.changed_fields = <<k>>
                      /\ DOMAIN last.ret.changes = {k}
                      /\ last.ret.changes[k] =
                            [old |-> dict_get(base, k), new |-> cand.val[k]]

\* three keys in both, in different orders, retry_enabled True in one and 1 in
\* the other, and only the mode differs
C20_Witness ==
    /\ DiffCall
    /\ Len(last.arg.new_config.keys) = 3
    /\ Len(last.arg.default_config.keys) = 3
    /\ last.arg.new_config.keys # last.arg.default_config.keys
    /\ "retry_enabled" \in DOMAIN last.arg.default_config.val
    /\ "retry_enabled" \in DOMAIN last.arg.new_config.val
    /\ last.arg.default_config.val["retry_enabled"] = PyBool(TRUE)
    /\ last.arg.new_config.val["retry_enabled"] = PyInt(1)
    /\ last.ret.changed_fields = <<"generation_mode">>
    /\ last.ret.changes["generation_mode"] =
          [old |-> PyStr("template"), new |-> PyStr("llm")]

---------------------------------------------------------------------------
(* C21 *)

\* the keys of cand on which cand and base differ, in the order of cand
DifferingInOrder(base, cand) ==
    SelectSeq(cand.keys, LAMBDA k : k \in DifferingKeys(base, cand))

\* C21: compute_changes_from_default(base, cand) lists exactly the keys of
\* cand whose value differs from the value base has (None when base lacks the
\* key), in the order of cand's keys, each with old the value of base or None
\* and new the value of cand; a key only base has is never reported.
C21_AsymmetricOrderedDiff ==
    DiffCall =>
        LET base == last.arg.default_config
            cand == last.arg.new_config
        IN  /\ last.ret.changed_fields = DifferingInOrder(base, cand)
            /\ DOMAIN last.ret.changes = DifferingKeys(base, cand)
            /\ \A k \in DifferingKeys(base, cand) :
                  /\ last.ret.changes[k].new = cand.val[k]
                  /\ last.ret.changes[k].old =
                        IF k \in DOMAIN base.val THEN base.val[k] ELSE PyNone
            /\ \A k \in DOMAIN base.val \ DOMAIN cand.val :
                  /\ k \notin Range(last.ret.changed_fields)
                  /\ k \notin DOMAIN last.ret.changes

\* two keys differ and are listed in the order of cand, which is not the
\* order of base; a third key, which only base has, is not listed
C21_Witness ==
    /\ DiffCall
    /\ last.arg.default_config.keys = <<"sports", "session_id", "generation_mode">>
    /\ last.arg.new_config.keys = <<"generation_mode", "sports">>
    /\ last.ret.changed_fields = <<"generation_mode", "sports">>

---------------------------------------------------------------------------
(* C22 *)

\* C22: after validate(), whether it returned or raised, the document is the
\* one from before the call, and on success the value returned is the
\* builder's own document.
C22_ValidateLeavesDocument ==
    last.op = "validate" =>
        /\ config = last.pre
        /\ DOMAIN config = DOMAIN last.pre
        /\ last.raised = NoError => last.ret = "self.config"
        /\ last.raised # NoError => last.ret = None

\* validate() refused an llm document that has no llm block and added none
C22_Witness ==
    /\ last.op = "validate"
    /\ last.raised = ConfigValidationError(<<"LLM configuration required for LLM mode">>)
    /\ "llm" \notin DOMAIN config
    /\ config = last.pre

---------------------------------------------------------------------------
(* C30 *)

\* the document after the call has the keys it had, and key besides them,
\* and differs from the document before in the value of key at most
ChangedOnly(key) ==
    /\ DOMAIN config = DOMAIN last.pre \cup {key}
    /\ \A k \in DOMAIN config \ {key} : config[k] = last.pre[k]

\* C30: a with_sports call that returns changes only the sports field and a
\* with_retry call changes only retry_enabled: generation_mode, the llm
\* block and every other key are after the call what they were before.
C30_SportsAndRetryFrame ==
    /\ (last.op = "with_sports" /\ last.raised = NoError) => ChangedOnly("sports")
    /\ last.op = "with_retry" =>
          /\ last.raised = NoError
          /\ ChangedOnly("retry_enabled")

\* retries switched off on an llm document that has a session_id
C30_Witness ==
    /\ last.op = "with_retry"
    /\ "llm" \in DOMAIN config
    /\ "session_id" \in DOMAIN config
    /\ "sports" \in DOMAIN config
    /\ "generation_mode" \in DOMAIN config
    /\ config["generation_mode"] = PyStr("llm")
    /\ last.pre["retry_enabled"]
    /\ ~config["retry_enabled"]

---------------------------------------------------------------------------
(* C29 *)

\* the builder under study was made by ConfigBuilder(): only setters and
\* validate have touched its document
Fresh == origin = "ConfigBuilder"

\* 3 to 5 entries, pairwise distinct, none empty, each its own trimmed and
\* lowercased form
WellFormedSports(sports) ==
    /\ Len(sports) \in MIN_SPORTS..MAX_SPORTS
    /\ PairwiseDistinct(sports)
    /\ \A i \in 1..Len(sports) :
          /\ sports[i].type = "str"
          /\ sports[i].val # <<>>
          /\ sports[i].val = Lowercased(Trimmed(sports[i].val))

\* C29: on a fresh builder changed through the setters only, the sports list
\* is at all times empty or a list of 3 to 5 pairwise distinct, non-empty,
\* trimmed and lowercased entries, also after a with_sports call that raised.
C29_FreshSportsWellFormed ==
    Fresh => \/ config["sports"] = <<>>
             \/ WellFormedSports(config["sports"])

\* a refused list after a list of five was stored
C29_Witness ==
    /\ Fresh
    /\ last.op = "with_sports"
    /\ last.raised # NoError
    /\ Len(config["sports"]) = MAX_SPORTS
    /\ WellFormedSports(config["sports"])

---------------------------------------------------------------------------
(* C27 *)

\* C27: on a fresh builder changed through the setters only,
\* generation_mode is 'template' or 'llm', and whenever it is 'llm' the llm
\* block exists and its provider is 'together' or 'huggingface'.
C27_FreshModeAndBlock ==
    Fresh =>
        /\ config["generation_mode"] \in {PyStr("template"), PyStr("llm")}
        /\ config["generation_mode"] = PyStr("llm") =>
              /\ "llm" \in DOMAIN config
              /\ "provider" \in DOMAIN config["llm"]
              /\ config["llm"]["provider"] \in {PyStr("together"), PyStr("huggingface")}

\* the mode set to llm on a builder that had no llm block
C27_Witness ==
    /\ Fresh
    /\ last.op = "with_generation_mode"
    /\ last.arg = PyStr("llm")
    /\ "llm" \notin DOMAIN last.pre
    /\ config["llm"] = DEFAULT_LLM_CONFIG

---------------------------------------------------------------------------
(* C26 *)

\* validate() was called on a fresh builder that holds a sports list: with
\* setters alone a list gets there only by a with_sports call that returned
ValidateAfterSports ==
    /\ Fresh
    /\ last.op = "validate"
    /\ config["sports"] # <<>>

\* C26 as stated: on a fresh builder, once a with_sports call has succeeded,
\* validate() succeeds after any further setter calls that returned.
C26_ValidateSucceedsAfterSetters ==
    ValidateAfterSports => last.raised = NoError

\* the model of the llm block is the empty string or None
ModelUnset(d) == HasLlm(d) /\ Falsy(d["llm"], "model")

\* C26 as amended: on a fresh builder, once a with_sports call has succeeded,
\* validate() after any further setter calls that returned succeeds unless
\* generation_mode is 'llm' and the model set last is '' or None; then it
\* raises ConfigValidationError 'LLM model is required for LLM mode'.
C26_ValidateSucceedsUnlessModelUnset ==
    ValidateAfterSports =>
        IF LlmMode(config) /\ ModelUnset(config)
        THEN last.raised =
                 ConfigValidationError(<<"LLM model is required for LLM mode">>)
        ELSE last.raised = NoError

\* with_llm_model(None) after a sports list: validate() refuses
C26_Witness ==
    /\ ValidateAfterSports
    /\ config["generation_mode"] = PyStr("llm")
    /\ config["llm"]["model"] = None
    /\ last.raised # NoError

---------------------------------------------------------------------------
(* C24 *)

\* C24: build() returns the document validate() returns on the same builder
\* and raises ConfigValidationError where validate() does.
C24_BuildValidatesAndReturns ==
    last.op = "build" =>
        /\ last.raised = validate(last.pre).raised
        /\ last.raised = NoError => last.ret = "self.config"
        /\ config = validate(last.pre).config

---------------------------------------------------------------------------
(* C23 *)

ScriptMade == last.op = "create_generator_script"

\* where the script calls the method
CallsIn(script, method) == {i \in 1..Len(script) : script[i].method = method}

\* the script calls the method exactly once, with the literal arg
CalledOnceWith(script, method, arg) ==
    /\ Cardinality(CallsIn(script, method)) = 1
    /\ \A i \in CallsIn(script, method) : script[i].arg = arg

\* C23: for mode 'llm' the script contains with_generation_mode("llm"), one
\* with_llm_provider call and one with_llm_model call with the provider and
\* the model supplied; for mode 'template' it contains none of the three
\* calls, whatever provider and model were passed.
C23_LlmCallsOnlyInLlmMode ==
    ScriptMade =>
        IF last.arg.mode = "llm"
        THEN /\ CalledOnceWith(last.ret, "with_generation_mode", "llm")
             /\ CalledOnceWith(last.ret, "with_llm_provider", last.arg.provider)
             /\ CalledOnceWith(last.ret, "with_llm_model", last.arg.model)
        ELSE \A method \in LlmSetters : CallsIn(last.ret, method) = {}

\* a template script made with a provider and a model passed all the same
C23_Witness ==
    /\ ScriptMade
    /\ last.arg.mode = "template"
    /\ last.arg.provider = "huggingface"
    /\ last.arg.model = "custom-model"
    /\ CallsIn(last.ret, "with_sports") # {}
    /\ CallsIn(last.ret, "with_llm_provider") = {}

---------------------------------------------------------------------------
(* C25 *)

\* C25: setter calls on a builder returned by from_dict(d) never change the
\* caller's mapping d: after any setter calls d, its nested llm mapping and
\* its sports list included, equals what it was when from_dict was called,
\* and a second builder made from the same d holds that document too.
C25_SettersLeaveCallersMapping ==
    /\ ValueOf(heap, heap.data) = heap.given
    /\ \A i \in 1..Len(heap.second) :
          ValueOf(heap, heap.second[i]) = from_dict(heap.given)

---------------------------------------------------------------------------
(* C28 *)

\* C28: builders share no LLM state: a with_llm_provider or with_llm_model
\* call on the builder changes neither the class-level default block nor the
\* document of another builder, and with_generation_mode('llm') on a later
\* fresh builder yields provider 'together' and the default model.
C28_BuildersShareNoLlmState ==
    /\ heap.obj[ClassDefault] = DEFAULT_LLM_CONFIG
    /\ \A i \in 1..Len(heap.second) :
          ValueOf(heap, heap.second[i]) = heap.second[i].made
    /\ \A i \in 1..Len(heap.fresh) :
          ValueOf(heap, heap.fresh[i])["llm"] =
              [provider |-> PyStr("together"), model |-> DEFAULT_LLM_CONFIG["model"]]

====
